---------------------------- MODULE Spec2Model ----------------------------
(***************************************************************************)
(* A model of python_codes/casp14_predictor_test.py: the lDDT text-table   *)
(* extractor (lddt_from_text, read_lddt_values) and the benchmark loop of  *)
(* main() that pairs LoCoHD scores with lDDT scores per anchor residue,    *)
(* correlates them and folds the results into running lists, a global 2D   *)
(* histogram and the files it writes.                                      *)
(*                                                                         *)
(* Numbers.  Scores are floats in the program.  Here every score is held   *)
(* in hundredths (0.30 is 30, a LoCoHD range of [0, 0.5] is 0..50) and the *)
(* score menus hold even values only, so that the median of two scores is  *)
(* again a whole number of hundredths.  A float that may be nan (a        *)
(* correlation, an entry of the running lists) is Num(x) or NaN.           *)
(*                                                                         *)
(* Text.  A text is a sequence of tokens; "\n" and "\t" are tokens of      *)
(* their own, so that str.split is modelled by what it does.               *)
(***************************************************************************)
EXTENDS Integers, Sequences, FiniteSets, Bags, TLC

VARIABLES
    text,               \* lddt_from_text: the argument
    score_map,          \* lddt_from_text: what the call gave (a dict or an exception)
    xpc,                \* "input" before the call of lddt_from_text, "called" after
    tgz,                \* the structure keys whose {structure_key}.tgz exists
    pc,                 \* main: "structure" | "prediction" | "finished" | "raised"
    structure_idx,      \* main: number of keys of `structures` the outer loop has taken
    true_pra_templates, \* main: the templates of the true structure
    true_prim_atoms,    \* main: the primitive atoms of the true structure
    anchors,            \* main: the (idx, idx) pairs of the "Cent" templates
    lddt_dict,          \* main: member key -> residue key -> lDDT
    n_preds,            \* main: len(structures[structure_key][1:])
    pred_idx,           \* main: the inner loop's pred_idx
    lchd_scores,        \* main: the last LoCoHD scores
    lddt_scores,        \* main: the last collected lDDT scores
    spr_values,         \* main: the correlations so far
    median_lddts,       \* main: the median lDDT of every prediction so far
    median_lchds,       \* main: the median LoCoHD of every prediction so far
    hist,               \* main: the global histogram, a bag of <<x bin, y bin>>
    full_hist_png,      \* the file full_hist.png: the histogram it shows, or Absent
    statistics_txt,     \* the file statistics.txt: the report, or Absent
    stdout              \* the lines main has printed

extract_vars == <<text, score_map, xpc>>
main_vars == <<tgz, pc, structure_idx, true_pra_templates, true_prim_atoms, anchors,
               lddt_dict, n_preds, pred_idx, lchd_scores, lddt_scores, spr_values,
               median_lddts, median_lchds, hist, full_hist_png, statistics_txt, stdout>>
vars == <<extract_vars, main_vars>>

\* A float: a number of hundredths, or nan.
Num(x) == [nan |-> FALSE, v |-> x]
NaN == [nan |-> TRUE, v |-> 0]
\* A file that has not been written.
Absent == [written |-> FALSE, shows |-> <<>>]
Written(content) == [written |-> TRUE, shows |-> content]
NoValue == <<>>

\* The largest number of lines of a text handed to lddt_from_text.
MaxLines == 3
\* The largest number of predictions of the corpus.
MaxPreds == 3

---------------------------------------------------------------------------
(* Helpers: minimum, maximum, sum. *)

SetMin(S) == CHOOSE x \in S : \A y \in S : x <= y
SetMax(S) == CHOOSE x \in S : \A y \in S : x >= y

RECURSIVE SeqSum(_)
SeqSum(s) == IF s = <<>> THEN 0 ELSE Head(s) + SeqSum(Tail(s))

---------------------------------------------------------------------------
(* str.split, str.startswith, float and the f-string of the residue key. *)

\* s.split(sep): the pieces of s between the occurrences of sep; never empty.
RECURSIVE Split(_, _)
Split(s, sep) ==
    LET at == {i \in 1..Len(s) : s[i] = sep}
    IN  IF at = {} THEN <<s>>
        ELSE LET i == SetMin(at)
             IN  <<SubSeq(s, 1, i - 1)>> \o Split(SubSeq(s, i + 1, Len(s)), sep)

\* The string a sequence of tokens spells.
RECURSIVE Str(_)
Str(toks) == IF toks = <<>> THEN "" ELSE Head(toks) \o Str(Tail(toks))

\* The strings float() parses here, with their values in hundredths.
FloatTable == ("0.30" :> 30) @@ ("0.50" :> 50) @@ ("0.90" :> 90)
IsFloat(s) == s \in DOMAIN FloatTable
float(s) == FloatTable[s]

header_text == <<"Chain", "\t", "ResName", "\t", "ResNum", "\t", "Asses.", "\t",
                 "Q.Prob.", "\t", "Score">>

startswith(line, prefix) ==
    /\ Len(line) >= Len(prefix)
    /\ SubSeq(line, 1, Len(prefix)) = prefix

\* f"{chain}/{resnum}-{resname}"
ResidueKey(chain, resnum, resname) == chain \o "/" \o resnum \o "-" \o resname

Returned(v) == [exc |-> "none", val |-> v]
Raised(e) == [exc |-> e, val |-> NoValue]

DictSet(d, k, v) == [x \in (DOMAIN d) \cup {k} |-> IF x = k THEN v ELSE d[x]]

\* A plausible slip: a "-" score is not passed over but kept, zero-filled.
RECURSIVE Comprehension_zero_fill(_, _, _)
Comprehension_zero_fill(lines, i, d) ==
    IF i > Len(lines) THEN Returned(d)
    ELSE LET line == lines[i]
             key == ResidueKey(Str(line[1]), Str(line[3]), Str(line[2]))
         IN  IF Len(line) = 1 THEN Comprehension_zero_fill(lines, i + 1, d)
             ELSE IF Len(line) < 6 THEN Raised("IndexError")
             ELSE IF Str(line[6]) = "-"
                  THEN Comprehension_zero_fill(lines, i + 1, DictSet(d, key, 0))
             ELSE IF ~IsFloat(Str(line[6])) THEN Raised("ValueError")
             ELSE Comprehension_zero_fill(lines, i + 1,
                                          DictSet(d, key, float(Str(line[6]))))

\* The dict comprehension of lddt_from_text over the split lines, from line i on:
\* a one-field line is passed over, line[5] of a shorter line is an IndexError,
\* a "-" score is passed over, float() of anything else must parse.
RECURSIVE Comprehension(_, _, _)
Comprehension(lines, i, d) ==
    IF i > Len(lines) THEN Returned(d)
    ELSE LET line == lines[i]
         IN  IF Len(line) = 1 THEN Comprehension(lines, i + 1, d)
             ELSE IF Len(line) < 6 THEN Raised("IndexError")
             ELSE IF Str(line[6]) = "-" THEN Comprehension(lines, i + 1, d)
             ELSE IF ~IsFloat(Str(line[6])) THEN Raised("ValueError")
             ELSE Comprehension(lines, i + 1,
                      DictSet(d, ResidueKey(Str(line[1]), Str(line[3]), Str(line[2])),
                              float(Str(line[6]))))

lddt_from_text(t) ==
    LET lines == Split(t, "\n")
        found == {idx \in 1..Len(lines) : startswith(lines[idx], header_text)}
    IN  IF found = {} THEN Raised("StopIteration")
        ELSE LET start_idx == SetMin(found)
                 rest == SubSeq(lines, start_idx + 1, Len(lines))
             IN  Comprehension([i \in 1..Len(rest) |-> Split(rest[i], "\t")], 1, <<>>)

---------------------------------------------------------------------------
(* The lines the texts of the extractor's specification are made of. *)

Row(chain, resname, resnum, score) ==
    <<chain, "\t", resname, "\t", resnum, "\t", "x", "\t", "x", "\t", score>>

LineMenu ==
    { header_text,
      Row("A", "GLY", "1", "0.30"),
      Row("A", "GLY", "1", "0.90"),
      Row("A", "ALA", "2", "0.50"),
      Row("A", "ALA", "2", "-"),
      Row("A", "SER", "3", "0.90") \o <<"\t", "x">>,
      <<"A", "\t", "GLY", "\t", "1">>,
      Row("A", "SER", "3", "n/a"),
      <<>> }

RECURSIVE JoinLines(_)
JoinLines(ls) ==
    IF ls = <<>> THEN <<>>
    ELSE IF Len(ls) = 1 THEN ls[1]
    ELSE ls[1] \o <<"\n">> \o JoinLines(Tail(ls))

Texts == {JoinLines(ls) : ls \in UNION {[1..n -> LineMenu] : n \in 1..MaxLines}}

---------------------------------------------------------------------------
(* The numpy and scipy reductions main() uses, on sequences of hundredths.  *)
(* A mean is the fraction num/den, a median the fraction num/2, a standard  *)
(* deviation is given by its square, the fraction num/den; any NaN in the   *)
(* input makes the result NaN, as numpy's plain reductions do.              *)

HasNaN(s) == \E i \in 1..Len(s) : s[i].nan
Vals(s) == [i \in 1..Len(s) |-> s[i].v]

RECURSIVE Sorted(_)
Sorted(s) ==
    IF s = <<>> THEN <<>>
    ELSE LET m == SetMin({s[i] : i \in 1..Len(s)})
             at == SetMin({i \in 1..Len(s) : s[i] = m})
         IN  <<m>> \o Sorted(SubSeq(s, 1, at - 1) \o SubSeq(s, at + 1, Len(s)))

SumSq(s) == SeqSum([i \in 1..Len(s) |-> s[i] * s[i]])

np_mean(s) ==
    IF s = <<>> \/ HasNaN(s) THEN NaN
    ELSE [nan |-> FALSE, num |-> SeqSum(Vals(s)), den |-> Len(s)]

np_median_fraction(s) ==
    IF s = <<>> \/ HasNaN(s) THEN NaN
    ELSE LET t == Sorted(Vals(s))
             n == Len(s)
         IN  [nan |-> FALSE, num |-> t[(n + 1) \div 2] + t[(n + 2) \div 2], den |-> 2]

np_std(s) ==
    IF s = <<>> \/ HasNaN(s) THEN NaN
    ELSE [nan |-> FALSE,
          sq_num |-> Len(s) * SumSq(Vals(s)) - SeqSum(Vals(s)) * SeqSum(Vals(s)),
          sq_den |-> Len(s) * Len(s)]

np_min(s) == IF HasNaN(s) THEN NaN ELSE Num(SetMin({s[i].v : i \in 1..Len(s)}))
np_max(s) == IF HasNaN(s) THEN NaN ELSE Num(SetMax({s[i].v : i \in 1..Len(s)}))

\* np.median of the scores of one prediction, in hundredths (the menus hold
\* even values, so the mean of the two middle values is whole).
np_median(s) ==
    LET t == Sorted(s)
        n == Len(s)
    IN  Num((t[(n + 1) \div 2] + t[(n + 2) \div 2]) \div 2)

\* Twice the average rank of s[i] in s.
Rank2(s, i) ==
    2 * Cardinality({j \in 1..Len(s) : s[j] < s[i]})
    + Cardinality({j \in 1..Len(s) : s[j] = s[i]}) + 1

ISqrt(x) == CHOOSE k \in 0..100 : k * k <= x /\ (k + 1) * (k + 1) > x

\* spearmanr(a, b).correlation in hundredths: Pearson's coefficient of the
\* ranks, NaN when either input is constant.
spearmanr(a, b) ==
    LET n == Len(a)
        ra == [i \in 1..n |-> Rank2(a, i)]
        rb == [i \in 1..n |-> Rank2(b, i)]
        cov == n * SeqSum([i \in 1..n |-> ra[i] * rb[i]]) - SeqSum(ra) * SeqSum(rb)
        va == n * SumSq(ra) - SeqSum(ra) * SeqSum(ra)
        vb == n * SumSq(rb) - SeqSum(rb) * SeqSum(rb)
    IN  IF va = 0 \/ vb = 0 THEN NaN
        ELSE LET mag == ISqrt((cov * cov * 10000) \div (va * vb))
             IN  IF cov < 0 THEN Num(0 - mag) ELSE Num(mag)

\* hist_range and hist_bins of main(), the range in hundredths.
hist_range == <<<<0, 50>>, <<0, 100>>>>
hist_bins == 100

InRange(v, r) == r[1] <= v /\ v <= r[2]
\* The last bin is closed on the right, every other one half-open.
BinOf(v, r) ==
    IF v = r[2] THEN hist_bins - 1 ELSE ((v - r[1]) * hist_bins) \div (r[2] - r[1])

\* np.histogram2d(xs, ys, bins=hist_bins, range=hist_range): the samples inside
\* the range, binned; a sample outside it is not counted.
RECURSIVE histogram2d(_, _)
histogram2d(xs, ys) ==
    IF xs = <<>> THEN EmptyBag
    ELSE LET rest == histogram2d(Tail(xs), Tail(ys))
         IN  IF InRange(Head(xs), hist_range[1]) /\ InRange(Head(ys), hist_range[2])
             THEN rest (+) SetToBag({<<BinOf(Head(xs), hist_range[1]),
                                       BinOf(Head(ys), hist_range[2])>>})
             ELSE rest

\* The text of statistics.txt.
StatisticsReport(spr, lddts, lchds) ==
    LET five(s) == [mean |-> np_mean(s), median |-> np_median_fraction(s),
                    std |-> np_std(s), min |-> np_min(s), max |-> np_max(s)]
    IN  [SpR |-> five(spr), median_lDDT |-> five(lddts), median_LoCoHD |-> five(lchds)]

---------------------------------------------------------------------------
(* The inputs of main(): the structures pickle, the templates the primitive *)
(* assigner gives, the lDDT archives, the scores LoCoHD gives.              *)

PREDICTOR_KEY == "TS480"

\* The keys of the `structures` dict, in its order.
StructureKeys == <<"T1024", "T1030">>

\* A PrimitiveAtomTemplate: its primitive type and its atom source, whose
\* source_residue is Biopython's full id (structure, model, chain, (het, number,
\* insertion code)).  The coordinates play no part here and are left out.
Template(type, chain, resnum, resname) ==
    [primitive_type |-> type,
     atom_source |-> [source_residue |-> <<"pdb", 0, chain, <<" ", resnum, " ">>>>,
                      source_residue_name |-> resname]]

\* What assign_primitive_structure may give for a true structure: templates in
\* residue order, at most one "Cent" per residue, at least one in all.
Clouds ==
    { <<Template("CA", "A", 1, "GLY"), Template("Cent", "A", 1, "GLY"),
        Template("CA", "A", 2, "ALA"), Template("Cent", "A", 2, "ALA")>>,
      <<Template("CA", "A", 1, "GLY"),
        Template("CA", "A", 2, "ALA"), Template("Cent", "A", 2, "ALA")>>,
      <<Template("Cent", "A", 1, "GLY"), Template("CA", "A", 2, "ALA")>> }

\* The scores LoCoHD may give an anchor, in hundredths; 60 lies outside hist_range.
LchdVals == {20, 60}

TableText(score1, score2) ==
    JoinLines(<<header_text, Row("A", "GLY", "1", score1), Row("A", "ALA", "2", score2), <<>>>>)
TruncatedText ==
    JoinLines(<<header_text, Row("A", "GLY", "1", "0.30"), <<"A", "\t", "ALA">>, <<>>>>)

\* What an archive may hold for one prediction: no member, or a member with a text.
MemberTexts == {TableText("0.30", "0.90"), TableText("0.30", "-"), TruncatedText}
NoMember == [member |-> FALSE, text |-> <<>>]
MemberChoices == {NoMember} \cup {[member |-> TRUE, text |-> t] : t \in MemberTexts}

MemberName(structure_key, predictor, i) ==
    <<structure_key, "/", "lddt", "/", structure_key, predictor, "_", ToString(i), ".lddt">>

\* The members of {structure_key}.tgz: one of another predictor, then those of
\* PREDICTOR_KEY that choice[i] gives a text.
RECURSIVE MembersFrom(_, _, _)
MembersFrom(structure_key, choice, i) ==
    IF i > Len(choice) THEN <<>>
    ELSE (IF ~choice[i].member THEN <<>>
          ELSE <<[name |-> MemberName(structure_key, PREDICTOR_KEY, i),
                  text |-> choice[i].text]>>)
         \o MembersFrom(structure_key, choice, i + 1)

Archive(structure_key, choice) ==
    <<[name |-> MemberName(structure_key, "TS427", 1), text |-> TruncatedText]>>
    \o MembersFrom(structure_key, choice, 1)

---------------------------------------------------------------------------
(* prat_to_pra, read_lddt_values and the pieces of main(). *)

\* Python indexes resi_id[2] and resi_id[3][1] from 0.
prat_to_pra(prat) ==
    LET resi_id == prat.atom_source.source_residue
        resname == prat.atom_source.source_residue_name
        source == resi_id[3] \o "/" \o ToString(resi_id[4][2]) \o "-" \o resname
    IN  [primitive_type |-> prat.primitive_type, id |-> source]

Contains(s, sub) == \E i \in 1..(Len(s) - Len(sub) + 1) : SubSeq(s, i, i + Len(sub) - 1) = sub

RECURSIVE Replace(_, _)
Replace(s, tok) ==
    IF s = <<>> THEN <<>>
    ELSE (IF Head(s) = tok THEN <<>> ELSE <<Head(s)>>) \o Replace(Tail(s), tok)

\* The loop of read_lddt_values over the filtered members: the first text that
\* lddt_from_text raises on ends it.
RECURSIVE ReadMembers(_, _)
ReadMembers(tf_members, d) ==
    IF tf_members = <<>> THEN Returned(d)
    ELSE LET content == lddt_from_text(Head(tf_members).text)
             member_key == Str(Replace(Split(Head(tf_members).name, "/")[3], ".lddt"))
         IN  IF content.exc # "none" THEN Raised(content.exc)
             ELSE ReadMembers(Tail(tf_members), DictSet(d, member_key, content.val))

read_lddt_values(structure_key, tf) ==
    LET wanted(m) == Contains(m.name, <<structure_key, PREDICTOR_KEY, "_">>)
    IN  ReadMembers(SelectSeq(tf, wanted), <<>>)

\* A plausible slip: the test is dropped and every structure is read.
os_path_exists_always(structure_key) == TRUE

\* os.path.exists(LDDT_TARS_PATH / f"{structure_key}.tgz")
os_path_exists(structure_key) == structure_key \in tgz

\* A plausible slip: the anchors are taken from the "CA" templates.
RECURSIVE AnchorsFrom_wrong_type(_, _)
AnchorsFrom_wrong_type(templates, idx) ==
    IF idx >= Len(templates) THEN <<>>
    ELSE (IF templates[idx + 1].primitive_type = "CA" THEN <<<<idx, idx>>>> ELSE <<>>)
         \o AnchorsFrom_wrong_type(templates, idx + 1)

\* [(idx, idx) for idx, prat in enumerate(templates) if prat.primitive_type == "Cent"],
\* from index idx on; the indices count from 0.
RECURSIVE AnchorsFrom(_, _)
AnchorsFrom(templates, idx) ==
    IF idx >= Len(templates) THEN <<>>
    ELSE (IF templates[idx + 1].primitive_type = "Cent" THEN <<<<idx, idx>>>> ELSE <<>>)
         \o AnchorsFrom(templates, idx + 1)

\* A plausible slip: a missing key is given the score 0 (a dict.get with a
\* default) instead of raising.
RECURSIVE CollectLddt_default_zero(_, _, _, _, _)
CollectLddt_default_zero(anchor_list, atoms, dict, key1, acc) ==
    IF anchor_list = <<>> THEN Returned(acc)
    ELSE LET key2 == atoms[Head(anchor_list)[1] + 1].id
         IN  IF key1 \notin DOMAIN dict \/ key2 \notin DOMAIN dict[key1]
             THEN CollectLddt_default_zero(Tail(anchor_list), atoms, dict, key1,
                                           Append(acc, 0))
             ELSE CollectLddt_default_zero(Tail(anchor_list), atoms, dict, key1,
                                           Append(acc, dict[key1][key2]))

\* The loop that collects the lDDT scores: lddt_dict[key1][key2] of every anchor
\* in turn; a missing key is a KeyError, which leaves the scores collected so far.
RECURSIVE CollectLddt(_, _, _, _, _)
CollectLddt(anchor_list, atoms, dict, key1, acc) ==
    IF anchor_list = <<>> THEN Returned(acc)
    ELSE LET key2 == atoms[Head(anchor_list)[1] + 1].id
         IN  IF key1 \notin DOMAIN dict \/ key2 \notin DOMAIN dict[key1]
             THEN [exc |-> "KeyError", val |-> acc]
             ELSE CollectLddt(Tail(anchor_list), atoms, dict, key1,
                              Append(acc, dict[key1][key2]))

\* A plausible slip: the figure is saved before the histogram is updated.
SaveFullHist_stale(old_hist, new_hist) == Written(old_hist)

\* fig.savefig(WORKDIR / "full_hist.png") after hist += new_hist: what the file shows.
SaveFullHist(old_hist, new_hist) == Written(old_hist (+) new_hist)

CurrentKey == StructureKeys[structure_idx]
Key1(idx) == CurrentKey \o PREDICTOR_KEY \o "_" \o ToString(idx + 1)

\* A plausible slip: the median LoCoHD is appended as soon as the LoCoHD scores
\* are there, before the lDDT scores are collected.
Iteration_append_first(lchd) ==
    LET key1 == Key1(pred_idx)
        got == CollectLddt(anchors, true_prim_atoms, lddt_dict, key1, <<>>)
    IN  IF got.exc # "none"
        THEN [exc |-> got.exc,
              lchd_scores |-> lchd,
              lddt_scores |-> got.val,
              spr_values |-> spr_values,
              median_lchds |-> Append(median_lchds, np_median(lchd)),
              median_lddts |-> median_lddts,
              hist |-> hist,
              full_hist_png |-> full_hist_png,
              stdout |-> stdout]
        ELSE LET current_spr == spearmanr(lchd, got.val)
                 new_hist == histogram2d(lchd, got.val)
             IN  [exc |-> "none",
                  lchd_scores |-> lchd,
                  lddt_scores |-> got.val,
                  spr_values |-> Append(spr_values, current_spr),
                  median_lchds |-> Append(median_lchds, np_median(lchd)),
                  median_lddts |-> Append(median_lddts, np_median(got.val)),
                  hist |-> hist (+) new_hist,
                  full_hist_png |-> SaveFullHist(hist, new_hist),
                  stdout |-> Append(stdout, key1 \o " done...")]

\* One pass of the inner loop of main(), given the scores LoCoHD returned.  The
\* scatter plot create_plot saves as {key1}.png is read by nothing and left out.
Iteration(lchd) ==
    LET key1 == Key1(pred_idx)
        got == CollectLddt(anchors, true_prim_atoms, lddt_dict, key1, <<>>)
    IN  IF got.exc # "none"
        THEN [exc |-> got.exc,
              lchd_scores |-> lchd,
              lddt_scores |-> got.val,
              spr_values |-> spr_values,
              median_lchds |-> median_lchds,
              median_lddts |-> median_lddts,
              hist |-> hist,
              full_hist_png |-> full_hist_png,
              stdout |-> stdout]
        ELSE LET current_spr == spearmanr(lchd, got.val)
                 new_hist == histogram2d(lchd, got.val)
             IN  [exc |-> "none",
                  lchd_scores |-> lchd,
                  lddt_scores |-> got.val,
                  spr_values |-> Append(spr_values, current_spr),
                  median_lchds |-> Append(median_lchds, np_median(lchd)),
                  median_lddts |-> Append(median_lddts, np_median(got.val)),
                  hist |-> hist (+) new_hist,
                  full_hist_png |-> SaveFullHist(hist, new_hist),
                  stdout |-> Append(stdout, key1 \o " done...")]

---------------------------------------------------------------------------
(* main(): the state after the setup, and one action per step of its loops. *)

Init ==
    /\ text = <<>>
    /\ score_map = NoValue
    /\ xpc = "idle"
    /\ tgz \in SUBSET {StructureKeys[i] : i \in 1..Len(StructureKeys)}
    /\ pc = "structure"
    /\ structure_idx = 0
    /\ true_pra_templates = <<>>
    /\ true_prim_atoms = <<>>
    /\ anchors = <<>>
    /\ lddt_dict = <<>>
    /\ n_preds = 0
    /\ pred_idx = 0
    /\ lchd_scores = <<>>
    /\ lddt_scores = <<>>
    /\ spr_values = <<>>
    /\ median_lddts = <<>>
    /\ median_lchds = <<>>
    /\ hist = EmptyBag
    /\ full_hist_png = Absent
    /\ statistics_txt = Absent
    /\ stdout = <<>>

structure_locals == <<true_pra_templates, true_prim_atoms, anchors, lddt_dict, n_preds, pred_idx>>
pair_result == <<lchd_scores, lddt_scores>>
aggregates == <<spr_values, median_lddts, median_lchds, hist>>
files == <<full_hist_png, statistics_txt, stdout>>

\* The outer loop takes a key whose archive is missing: continue.
SkipStructure ==
    /\ pc = "structure"
    /\ structure_idx < Len(StructureKeys)
    /\ ~os_path_exists(StructureKeys[structure_idx + 1])
    /\ structure_idx' = structure_idx + 1
    /\ UNCHANGED <<extract_vars, tgz, pc, structure_locals, pair_result, aggregates, files>>

\* The outer loop takes a key whose archive exists: the lDDT values are read
\* (tarfile.open raises when the archive is not there), the true structure is
\* turned into primitive atoms and anchors, and the inner loop starts.  The
\* structure's templates, its number of predictions and its archive are inputs;
\* the corpus holds at most MaxPreds predictions, and every prediction processed
\* so far has left one correlation.
ReadStructure ==
    /\ pc = "structure"
    /\ structure_idx < Len(StructureKeys)
    /\ os_path_exists(StructureKeys[structure_idx + 1])
    /\ structure_idx' = structure_idx + 1
    /\ \E templates \in Clouds, n \in 0..(MaxPreds - Len(spr_values)) :
         \E choice \in [1..n -> MemberChoices] :
           LET structure_key == StructureKeys[structure_idx + 1]
               read == IF structure_key \in tgz
                       THEN read_lddt_values(structure_key, Archive(structure_key, choice))
                       ELSE Raised("FileNotFoundError")
           IN  IF read.exc # "none"
               THEN /\ pc' = "raised"
                    /\ UNCHANGED structure_locals
               ELSE /\ lddt_dict' = read.val
                    /\ true_pra_templates' = templates
                    /\ anchors' = AnchorsFrom(templates, 0)
                    /\ true_prim_atoms' = [i \in 1..Len(templates) |-> prat_to_pra(templates[i])]
                    /\ n_preds' = n
                    /\ pred_idx' = 0
                    /\ pc' = IF n = 0 THEN "structure" ELSE "prediction"
    /\ UNCHANGED <<extract_vars, tgz, pair_result, aggregates, files>>

\* One pass of the inner loop.
ProcessPrediction ==
    /\ pc = "prediction"
    /\ \E lchd \in [1..Len(anchors) -> LchdVals] :
         LET it == Iteration(lchd)
         IN  /\ lchd_scores' = it.lchd_scores
             /\ lddt_scores' = it.lddt_scores
             /\ spr_values' = it.spr_values
             /\ median_lchds' = it.median_lchds
             /\ median_lddts' = it.median_lddts
             /\ hist' = it.hist
             /\ full_hist_png' = it.full_hist_png
             /\ stdout' = it.stdout
             /\ IF it.exc # "none"
                THEN pc' = "raised" /\ pred_idx' = pred_idx
                ELSE /\ pred_idx' = pred_idx + 1
                     /\ pc' = IF pred_idx + 1 = n_preds THEN "structure" ELSE "prediction"
    /\ UNCHANGED <<extract_vars, tgz, structure_idx, true_pra_templates, true_prim_atoms,
                   anchors, lddt_dict, n_preds, statistics_txt>>

\* After the loops: the statistics are written; np.min of an empty list raises.
SaveStatistics ==
    /\ pc = "structure"
    /\ structure_idx = Len(StructureKeys)
    /\ IF spr_values = <<>>
       THEN pc' = "raised" /\ UNCHANGED statistics_txt
       ELSE /\ pc' = "finished"
            /\ statistics_txt' = Written(StatisticsReport(spr_values, median_lddts, median_lchds))
    /\ UNCHANGED <<extract_vars, tgz, structure_idx, structure_locals, pair_result,
                   aggregates, full_hist_png, stdout>>

Next == SkipStructure \/ ReadStructure \/ ProcessPrediction \/ SaveStatistics

Spec == Init /\ [][Next]_vars

---------------------------------------------------------------------------
(* The extractor alone: a text is drawn, lddt_from_text is applied to it. *)

MainIdle ==
    /\ tgz = {}
    /\ pc = "idle"
    /\ structure_idx = 0
    /\ true_pra_templates = <<>>
    /\ true_prim_atoms = <<>>
    /\ anchors = <<>>
    /\ lddt_dict = <<>>
    /\ n_preds = 0
    /\ pred_idx = 0
    /\ lchd_scores = <<>>
    /\ lddt_scores = <<>>
    /\ spr_values = <<>>
    /\ median_lddts = <<>>
    /\ median_lchds = <<>>
    /\ hist = EmptyBag
    /\ full_hist_png = Absent
    /\ statistics_txt = Absent
    /\ stdout = <<>>

InitExtract ==
    /\ text \in Texts
    /\ score_map = NoValue
    /\ xpc = "input"
    /\ MainIdle

CallLddtFromText ==
    /\ xpc = "input"
    /\ score_map' = lddt_from_text(text)
    /\ xpc' = "called"
    /\ UNCHANGED <<text, main_vars>>

NextExtract == CallLddtFromText

SpecExtract == InitExtract /\ [][NextExtract]_vars

---------------------------------------------------------------------------
(* What the claims about lddt_from_text speak of, read off the text itself. *)

TextLines == Split(text, "\n")
HasHeader == \E i \in 1..Len(TextLines) : startswith(TextLines[i], header_text)
HeaderAt == SetMin({i \in 1..Len(TextLines) : startswith(TextLines[i], header_text)})
\* The rows after the header, each as its tab-separated fields.
RowsAfterHeader ==
    [i \in 1..(Len(TextLines) - HeaderAt) |-> Split(TextLines[HeaderAt + i], "\t")]
RowIdx == 1..Len(RowsAfterHeader)
FieldStr(i, c) == Str(RowsAfterHeader[i][c])
\* A well-formed row: six fields, the score a number or the sentinel.
WellFormedRow(i) ==
    /\ Len(RowsAfterHeader[i]) = 6
    /\ FieldStr(i, 6) = "-" \/ IsFloat(FieldStr(i, 6))
SentinelRow(i) == WellFormedRow(i) /\ FieldStr(i, 6) = "-"
ScoredRow(i) == WellFormedRow(i) /\ FieldStr(i, 6) # "-"
\* A row with a wrong column count; a line with no tab at all is no row.
WrongCountRow(i) == Len(RowsAfterHeader[i]) \notin {1, 6}
NoRow(i) == Len(RowsAfterHeader[i]) = 1
RowKey(i) == FieldStr(i, 1) \o "/" \o FieldStr(i, 3) \o "-" \o FieldStr(i, 2)

\* C5: for every text with the header whose rows are well-formed or have a wrong
\* column count, lddt_from_text raises nothing, every well-formed row with a
\* score is in the dict it returns, and the rows with a wrong column count add
\* no key to it.
C5_MalformedRowsSkipped ==
    (/\ xpc = "called"
     /\ HasHeader
     /\ \A i \in RowIdx : WellFormedRow(i) \/ WrongCountRow(i) \/ NoRow(i))
    => /\ score_map.exc = "none"
       /\ \A i \in RowIdx : ScoredRow(i) => RowKey(i) \in DOMAIN score_map.val
       /\ DOMAIN score_map.val = {RowKey(i) : i \in {j \in RowIdx : ScoredRow(j)}}

\* C9: on a table (a text with the header whose rows are all well-formed) the
\* keys of the returned dict are exactly the keys of the rows whose score is not
\* "-", and each such row that no later one repeats is mapped to its own score;
\* no sentinel row is zero-filled.
C9_SentinelRowsOmitted ==
    (/\ xpc = "called"
     /\ HasHeader
     /\ \A i \in RowIdx : WellFormedRow(i) \/ NoRow(i))
    => /\ score_map.exc = "none"
       /\ DOMAIN score_map.val = {RowKey(i) : i \in {j \in RowIdx : ScoredRow(j)}}
       /\ \A i \in RowIdx :
              (ScoredRow(i) /\ \A j \in RowIdx : (j > i /\ ScoredRow(j)) => RowKey(j) # RowKey(i))
              => score_map.val[RowKey(i)] = FloatTable[FieldStr(i, 6)]
       /\ \A i \in RowIdx :
              (SentinelRow(i) /\ \A j \in RowIdx : ScoredRow(j) => RowKey(j) # RowKey(i))
              => RowKey(i) \notin DOMAIN score_map.val

\* A table with a sentinel row and a scored row has been extracted.
C9_Witness ==
    /\ xpc = "called"
    /\ HasHeader
    /\ \A i \in RowIdx : WellFormedRow(i) \/ NoRow(i)
    /\ \E i, j \in RowIdx : SentinelRow(i) /\ ScoredRow(j) /\ RowKey(i) # RowKey(j)
    /\ score_map.exc = "none"
    /\ Cardinality(DOMAIN score_map.val) = 1

---------------------------------------------------------------------------
(* What the claims about main() speak of. *)

\* The residue key of the k-th anchor, as the inner loop forms it.
AnchorKey(k) == true_prim_atoms[anchors[k][1] + 1].id

\* The prediction with index idx of the structure with key structure_key lacks a
\* reference score: its member, or the key of one of the anchors, is not there.
LacksReference(structure_key, idx) ==
    LET key1 == structure_key \o PREDICTOR_KEY \o "_" \o ToString(idx + 1)
    IN  \E k \in 1..Len(anchors) :
            key1 \notin DOMAIN lddt_dict \/ AnchorKey(k) \notin DOMAIN lddt_dict[key1]

Ended == pc \in {"finished", "raised"}

\* The lines "{key1} done..." main() may print, and the printed lines that are
\* none of them: the entries that record a skip.
DoneLines ==
    {StructureKeys[i] \o PREDICTOR_KEY \o "_" \o ToString(j) \o " done..." :
        i \in 1..Len(StructureKeys), j \in 1..(MaxPreds + 1)}
SkipEntries == {i \in 1..Len(stdout) : stdout[i] \notin DoneLines}

\* C1: a run over one structure with 3 predictions of which exactly one lacks a
\* reference key ends with 2 correlations and one skipped-prediction entry.
C1_FailedPredictionSkipped ==
    (/\ Ended
     /\ Cardinality(tgz) = 1
     /\ true_pra_templates # <<>>
     /\ n_preds = 3
     /\ Cardinality({idx \in 0..2 : LacksReference(CHOOSE k \in tgz : TRUE, idx)}) = 1)
    => /\ Len(spr_values) = 2
       /\ Cardinality(SkipEntries) = 1

\* C2: a pass of the inner loop whose prediction lacks the key of an anchor
\* raises and adds no result; any other pass leaves one lDDT score per anchor,
\* in the anchors' order, each the ScoreMap's value of the anchor's key, and as
\* many LoCoHD scores.
C2_NoAnchorDropped ==
    [][pc = "prediction" =>
        IF LacksReference(CurrentKey, pred_idx)
        THEN /\ pc' = "raised"
             /\ spr_values' = spr_values
             /\ stdout' = stdout
        ELSE /\ pc' # "raised"
             /\ Len(spr_values') = Len(spr_values) + 1
             /\ Len(lddt_scores') = Len(anchors)
             /\ Len(lchd_scores') = Len(anchors)
             /\ \A k \in 1..Len(anchors) :
                    lddt_scores'[k] = lddt_dict[Key1(pred_idx)][AnchorKey(k)]]_vars

\* A prediction has been scored, and a later one raised on its second anchor.
C2_Witness ==
    /\ pc = "raised"
    /\ Len(spr_values) >= 1
    /\ Len(anchors) = 2
    /\ Len(lddt_scores) = 1
    /\ Len(lchd_scores) = 2

C4_NoSampleDropped ==
    [][(pc = "prediction" /\ pc' # "raised")
        => BagCardinality(hist') = BagCardinality(hist) + Len(anchors)]_vars

Defined(s) == SelectSeq(s, LAMBDA x : ~x.nan)

\* C6: with one NaN among otherwise defined correlations, the five statistics of
\* the correlations in statistics.txt are those of the defined correlations.
C6_NanExcludedFromStatistics ==
    (/\ pc = "finished"
     /\ Len(spr_values) - Len(Defined(spr_values)) = 1
     /\ Len(Defined(spr_values)) >= 1)
    => statistics_txt.shows.SpR
         = StatisticsReport(Defined(spr_values), median_lddts, median_lchds).SpR

\* C7: a step that raises leaves the three running lists, the histogram and
\* full_hist.png as they were.
C7_FailureKeepsAggregates ==
    [][(pc # "raised" /\ pc' = "raised")
        => /\ spr_values' = spr_values
           /\ median_lchds' = median_lchds
           /\ median_lddts' = median_lddts
           /\ hist' = hist
           /\ full_hist_png' = full_hist_png]_vars

\* A prediction has raised on a missing key after another one had been folded in.
C7_Witness ==
    /\ pc = "raised"
    /\ Len(lddt_scores) < Len(anchors)
    /\ Len(spr_values) >= 1
    /\ Len(median_lchds) = Len(spr_values)
    /\ BagCardinality(hist) >= 1

MissingArchiveNext ==
    /\ pc = "structure"
    /\ structure_idx < Len(StructureKeys)
    /\ StructureKeys[structure_idx + 1] \notin tgz

\* C8: taking a structure whose archive is missing scores nothing, changes no
\* running list and no histogram, records a log entry, and the loop goes on.
C8_MissingArchiveSkippedAndLogged ==
    [][MissingArchiveNext
        => /\ structure_idx' = structure_idx + 1
           /\ pc' = "structure"
           /\ UNCHANGED <<aggregates, pair_result, full_hist_png, statistics_txt>>
           /\ Len(stdout') = Len(stdout) + 1]_vars

\* C8, amended: taking a structure whose archive is missing scores nothing,
\* changes no running list, no histogram, no file and prints nothing, and the
\* loop goes on with the next key.
C8_MissingArchiveSkippedSilently ==
    [][MissingArchiveNext
        => /\ structure_idx' = structure_idx + 1
           /\ pc' = "structure"
           /\ UNCHANGED <<aggregates, pair_result, structure_locals, files>>]_vars

\* The first structure had no archive, and a prediction of the second was scored.
C8_Witness ==
    /\ StructureKeys[1] \notin tgz
    /\ structure_idx = 2
    /\ Len(spr_values) >= 1
    /\ pc # "raised"

\* The indices (from 0) of the "Cent" templates of the true structure.
CentIndices ==
    {i \in 0..(Len(true_pra_templates) - 1) : true_pra_templates[i + 1].primitive_type = "Cent"}

\* C10: the anchors are as many as the "Cent" templates, strictly ascending,
\* pairs of one index, each the index of a "Cent" template, and the key used for
\* an anchor is the residue key of the template at its index.
C10_AnchorsAreTheCentroids ==
    /\ Len(anchors) = Cardinality(CentIndices)
    /\ \A k \in 1..(Len(anchors) - 1) : anchors[k][1] < anchors[k + 1][1]
    /\ \A k \in 1..Len(anchors) :
        /\ anchors[k][2] = anchors[k][1]
        /\ anchors[k][1] \in CentIndices
        /\ LET at == true_pra_templates[anchors[k][1] + 1].atom_source
           IN  AnchorKey(k) = ResidueKey(at.source_residue[3],
                                         ToString(at.source_residue[4][2]),
                                         at.source_residue_name)

\* A true structure with one centroid among three templates has been read.
C10_Witness ==
    /\ pc = "prediction"
    /\ Len(true_pra_templates) = 3
    /\ Len(anchors) = 1
    /\ anchors[1] = <<2, 2>>

=============================================================================
